---------------------------- MODULE Spec2Model ----------------------------
(***************************************************************************)
(* Model of the conversation / tool-orchestration core of RaidenAlpha:     *)
(*   - RedisPersistentMemory   (raiden_agents/memory/persistent_memory.py) *)
(*   - handle_streaming_response, execute_tool_call, chat_agent            *)
(*     (raiden_agents/agent_core.py and app.py, two variants of one loop)  *)
(*                                                                         *)
(* Python values are encoded as follows.                                   *)
(*   None / "" for an id, a name or a text  : the empty string ""          *)
(*        (the code only ever tests these for truthiness)                  *)
(*   None / [] for tool_calls               : the empty sequence <<>>      *)
(*   None for a whole message               : NoMessage                    *)
(*   a JSON arguments string                : a sequence of characters     *)
(***************************************************************************)
EXTENDS Integers, Sequences, FiniteSets, TLC

VARIABLES
    \* ---- the durable store (Upstash Redis) ----
    redis_list,            \* the list under CONVERSATION_KEY (JSON entries)
    redis_up,              \* whether the store answers requests
    \* ---- one RedisPersistentMemory instance ----
    initialized,           \* self.initialized
    system_message,        \* self.system_message
    max_tokens,            \* self.max_tokens
    current_token_count,   \* self.current_token_count
    mem_ret,               \* the last memory call and what it returned
    \* ---- one run of handle_streaming_response ----
    full_response_content,         \* text accumulated so far
    tool_calls_agg,                \* index -> {id, name, arguments}
    final_tool_calls_list,         \* finalized tool calls, in order
    completed_tool_call_indices,   \* indices already finalized
    final_indices,                 \* (history) the index of each finalized call
    chunks_consumed,               \* (history) number of chunks read
    received_arguments,            \* (history) index -> all fragments sent, joined
    asm_pc,                        \* "streaming" | "returned"
    asm_ret,                       \* the returned final_message_dict
    stream_input,                  \* the chunks the stream of this run holds
    run_results,                   \* (history) how each finished run ended
    \* ---- the tool registry and one call of execute_tool_call ----
    variant,               \* which program runs: "agent_core" | "app"
    tool_map,              \* names of the registered tools
    disp_call,             \* the tool_call_data of the last dispatch
    tool_behaviour,        \* what the called tool's logic does in that dispatch
    disp_ret,              \* what the last dispatch did
    tool_executions,       \* (history) number of tool.execute() calls
    \* ---- start of the process: initialize_tools, then chat_agent ----
    ctor_fails,            \* the tool classes whose constructor raises here
    vector_db_ready,       \* vector_db.is_ready() at start
    tools_list,            \* tools_list of initialize_tools
    reg_pc                 \* "list" | "map" | "returned" | "chat_agent" |
                           \* "exited" | "aborted"

mem_vars == <<redis_list, redis_up, initialized, system_message, max_tokens,
              current_token_count, mem_ret>>

asm_vars == <<full_response_content, tool_calls_agg, final_tool_calls_list,
              completed_tool_call_indices, final_indices, chunks_consumed,
              received_arguments, asm_pc, asm_ret, stream_input, run_results>>

VARIABLES
    pc,                    \* where chat_agent's while loop stands
    turns,                 \* inputs read so far
    response_stream,       \* the stream litellm.completion returned
    current_messages,      \* the messages of the last completion request
    response_message_dict, \* the first assembled message of the turn
    tc_index,              \* position of the for loop over its tool_calls
    outages,               \* times the store has become unreachable
    last_error,            \* the exception the last step of the loop ended in
    first_stream_raised,   \* (history) the turn's first stream ended by raising
    turn_trace             \* what the turn has done so far, in order

loop_vars == <<pc, turns, response_stream, current_messages,
               response_message_dict, tc_index, outages, last_error,
               first_stream_raised, turn_trace>>

disp_vars == <<variant, tool_map, disp_call, tool_behaviour, disp_ret,
               tool_executions, ctor_fails, vector_db_ready, tools_list, reg_pc>>

vars == <<mem_vars, asm_vars, disp_vars, loop_vars>>

(***************************************************************************)
(* Bounds of the model.                                                    *)
(***************************************************************************)
MaxLog == 4          \* longest persisted list explored
MaxChunks == 3       \* longest stream explored
MaxArgLen == 8       \* longest arguments buffer explored
MaxExecutions == 2   \* most tool executions counted
MaxTurns == 1        \* most inputs read by the loop
MaxOutages == 1      \* most times the store becomes unreachable under the loop

(***************************************************************************)
(* Messages.                                                               *)
(***************************************************************************)
NoMessage == [role |-> "none", content |-> "", tool_calls |-> <<>>, tool_call_id |-> ""]

Message(role, content, tool_calls, tool_call_id) ==
    [role |-> role, content |-> content, tool_calls |-> tool_calls,
     tool_call_id |-> tool_call_id]

SystemMessage(text)     == Message("system", text, <<>>, "")
UserMessage(text)       == Message("user", text, <<>>, "")
ToolMessage(id, text)   == Message("tool", text, <<>>, id)
AssistantMessage(text, calls) == Message("assistant", text, calls, "")
EmptyDictMessage        == Message("dict", "", <<>>, "")

ToolCallRequest(id, name, arguments) ==
    [id |-> id, name |-> name, arguments |-> arguments]

(***************************************************************************)
(* json.dumps / json.loads of a message.  The stored entry keeps the       *)
(* message and the number of characters of its serialisation (default      *)
(* separators ", " and ": ").                                              *)
(***************************************************************************)
RECURSIVE CountQuotes(_)
CountQuotes(s) ==
    IF s = <<>> THEN 0
    ELSE (IF Head(s) = "\"" THEN 1 ELSE 0) + CountQuotes(Tail(s))

\* {"id": "..", "type": "function", "function": {"name": "..", "arguments": ".."}}
ToolCallJsonLen(tc) ==
    73 + Len(tc.id) + Len(tc.name) + Len(tc.arguments) + CountQuotes(tc.arguments)

RECURSIVE ToolCallsJsonLen(_)
ToolCallsJsonLen(calls) ==
    IF calls = <<>> THEN 0
    ELSE ToolCallJsonLen(Head(calls))
         + (IF Len(calls) > 1 THEN 2 ELSE 0)
         + ToolCallsJsonLen(Tail(calls))

JsonLen(m) ==
    CASE m.role = "system"    -> 33 + Len(m.content)
      [] m.role = "user"      -> 59 + Len(m.content)
      [] m.role = "tool"      -> 51 + Len(m.tool_call_id) + Len(m.content)
      [] m.role = "assistant" ->
            50 + (IF m.content = "" THEN 4 ELSE 2 + Len(m.content))
               + (IF m.tool_calls = <<>> THEN 4
                  ELSE 2 + ToolCallsJsonLen(m.tool_calls))
      [] OTHER                -> 2

json_dumps(m) == [text |-> m, length |-> JsonLen(m)]
json_loads(j) == j.text

CHARS_PER_TOKEN_ESTIMATE == 4

estimate_tokens(m) == JsonLen(m) \div CHARS_PER_TOKEN_ESTIMATE

(***************************************************************************)
(* RedisPersistentMemory.get_messages: the walk over the fetched slice.    *)
(***************************************************************************)
\* (variant: the message is appended instead of inserted behind the first)
insert_at_end(lst, x) == Append(lst, x)

\* Python's list.insert(1, x): behind the first element; appended to an
\* empty list.
insert_at_1(lst, x) ==
    IF lst = <<>> THEN <<x>> ELSE <<Head(lst)>> \o <<x>> \o Tail(lst)

\* (variant: a message over the budget is passed over and the walk goes on)
RECURSIVE walk_history_continue(_, _, _, _, _)
walk_history_continue(recent, k, messages_to_return, current_tokens, budget) ==
    IF k = 0
    THEN [messages |-> messages_to_return, tokens |-> current_tokens]
    ELSE LET message        == recent[k].text
             message_tokens == recent[k].length \div 4
         IN  IF current_tokens + message_tokens <= budget
             THEN walk_history_continue(recent, k - 1,
                      IF messages_to_return = <<>> THEN <<message>>
                      ELSE <<Head(messages_to_return)>> \o <<message>>
                           \o Tail(messages_to_return),
                      current_tokens + message_tokens, budget)
             ELSE walk_history_continue(recent, k - 1, messages_to_return,
                                        current_tokens, budget)

\* the "for msg_json in reversed(recent_history_json)" loop, entry k first
RECURSIVE walk_history(_, _, _, _, _)
walk_history(recent, k, messages_to_return, current_tokens, budget) ==
    IF k = 0
    THEN [messages |-> messages_to_return, tokens |-> current_tokens]
    ELSE LET message        == json_loads(recent[k])
             message_tokens == estimate_tokens(message)
         IN  IF current_tokens + message_tokens <= budget
             THEN walk_history(recent, k - 1,
                               insert_at_1(messages_to_return, message),
                               current_tokens + message_tokens, budget)
             ELSE [messages |-> messages_to_return, tokens |-> current_tokens]

\* redis lrange(key, start_index, -1), start_index zero-based
lrange_from(lst, start_index) ==
    IF start_index >= Len(lst) THEN <<>>
    ELSE SubSeq(lst, start_index + 1, Len(lst))

Max(a, b) == IF a >= b THEN a ELSE b

fetch_start_index(history_len, sysmsg, budget) ==
    LET estimated_items_needed == (budget \div CHARS_PER_TOKEN_ESTIMATE) * 5
        start_index            == Max(0, history_len - estimated_items_needed)
    IN  IF sysmsg # NoMessage /\ start_index = 0 THEN 1 ELSE start_index

\* what get_messages returns when the store cannot be read
fallback_messages(sysmsg) ==
    IF sysmsg # NoMessage THEN <<sysmsg>> ELSE <<>>

\* (variant: the system message is returned without being charged)
read_window_system_free(lst, sysmsg, budget) ==
    LET start0 == IF sysmsg # NoMessage THEN <<sysmsg>> ELSE <<>>
        recent == lrange_from(lst, fetch_start_index(Len(lst), sysmsg, budget))
    IN  walk_history(recent, Len(recent), start0, 0, budget)

\* the body of get_messages once is_ready() has answered True and the
\* reads of the store succeed
read_window(lst, sysmsg, budget) ==
    LET start0 == IF sysmsg # NoMessage THEN <<sysmsg>> ELSE <<>>
        tok0   == IF sysmsg # NoMessage THEN estimate_tokens(sysmsg) ELSE 0
        recent == lrange_from(lst, fetch_start_index(Len(lst), sysmsg, budget))
    IN  walk_history(recent, Len(recent), start0, tok0, budget)

(***************************************************************************)
(* json.loads on an arguments string.  The strings of the model are made   *)
(* of the characters  { } " a : 1 and the blank; on these, the grammar of  *)
(* json.loads is: blanks, one value, blanks; a value is a number (1+), a   *)
(* string ("...") or an object with no member or one member.               *)
(***************************************************************************)
RECURSIVE SkipWs(_, _)
SkipWs(s, i) == IF i <= Len(s) /\ s[i] = " " THEN SkipWs(s, i + 1) ELSE i

RECURSIVE SkipDigits(_, _)
SkipDigits(s, i) == IF i <= Len(s) /\ s[i] = "1" THEN SkipDigits(s, i + 1) ELSE i

\* the position of the next double quote at or after i, 0 if there is none
RECURSIVE FindQuote(_, _)
FindQuote(s, i) ==
    IF i > Len(s) THEN 0 ELSE IF s[i] = "\"" THEN i ELSE FindQuote(s, i + 1)

\* the position behind the string that starts at i (s[i] is a double quote)
ScanString(s, i) ==
    LET q == FindQuote(s, i + 1) IN IF q = 0 THEN 0 ELSE q + 1

\* the position behind the value that starts at i, 0 if there is no value;
\* the second component tells the kind of the value
RECURSIVE ScanValue(_, _)
ScanValue(s, i) ==
    IF i > Len(s) THEN 0
    ELSE IF s[i] = "1" THEN SkipDigits(s, i)
    ELSE IF s[i] = "\"" THEN ScanString(s, i)
    ELSE IF s[i] = "{" THEN
        LET j == SkipWs(s, i + 1)
        IN  IF j > Len(s) THEN 0
            ELSE IF s[j] = "}" THEN j + 1
            ELSE IF s[j] # "\"" THEN 0
            ELSE LET k == ScanString(s, j)
                     c == SkipWs(s, k)
                 IN  IF k = 0 \/ c > Len(s) \/ s[c] # ":" THEN 0
                     ELSE LET v == ScanValue(s, SkipWs(s, c + 1))
                              e == SkipWs(s, v)
                          IN  IF v = 0 \/ e > Len(s) \/ s[e] # "}" THEN 0
                              ELSE e + 1
    ELSE 0

\* (variant: the empty string is taken for an empty argument object)
json_valid_or_empty(s) ==
    \/ s = <<>>
    \/ LET i == SkipWs(s, 1)
           j == ScanValue(s, i)
       IN  j # 0 /\ SkipWs(s, j) = Len(s) + 1

\* whether json.loads(s) returns (no JSONDecodeError)
json_valid(s) ==
    LET i == SkipWs(s, 1)
        j == ScanValue(s, i)
    IN  j # 0 /\ SkipWs(s, j) = Len(s) + 1

(***************************************************************************)
(* handle_streaming_response                                               *)
(***************************************************************************)
Indices == {0, 1}

\* defaultdict(lambda: {"id": None, "name": None, "arguments": ""})
EmptyAgg == [idx \in Indices |-> [id |-> "", name |-> "", arguments |-> <<>>]]

\* the local state of one run
Accumulator(content, agg, final, completed, findex) ==
    [content |-> content, agg |-> agg, final |-> final,
     completed |-> completed, findex |-> findex]

NewAccumulator == Accumulator("", EmptyAgg, <<>>, {}, <<>>)

\* one tc_chunk of delta.tool_calls; has_function is "tc_chunk.function"
Delta(index, id, has_function, name, arguments) ==
    [index |-> index, id |-> id, has_function |-> has_function,
     name |-> name, arguments |-> arguments]

\* (variant: the arguments buffer is replaced by the fragment)
merge_delta_overwrite(agg, d) ==
    LET a1 == IF d.id # "" THEN [agg EXCEPT ![d.index].id = d.id] ELSE agg
        a2 == IF d.has_function /\ d.name # ""
              THEN [a1 EXCEPT ![d.index].name = d.name] ELSE a1
    IN  IF d.has_function /\ d.arguments # <<>>
        THEN [a2 EXCEPT ![d.index].arguments = d.arguments]
        ELSE a2

\* the three "if" updates of tool_calls_agg[idx]
merge_delta(agg, d) ==
    LET a1 == IF d.id # "" THEN [agg EXCEPT ![d.index].id = d.id] ELSE agg
        a2 == IF d.has_function /\ d.name # ""
              THEN [a1 EXCEPT ![d.index].name = d.name] ELSE a1
    IN  IF d.has_function /\ d.arguments # <<>>
        THEN [a2 EXCEPT ![d.index].arguments = @ \o d.arguments]
        ELSE a2

\* (variant: the test "idx not in completed_tool_call_indices" is missing)
process_delta_refinalize(acc, d) ==
    LET agg          == merge_delta(acc.agg, d)
        current_call == agg[d.index]
    IN  IF /\ current_call.id # ""
           /\ current_call.name # ""
           /\ json_valid(current_call.arguments)
        THEN Accumulator(acc.content, agg,
                 Append(acc.final,
                        ToolCallRequest(current_call.id, current_call.name,
                                        current_call.arguments)),
                 acc.completed \cup {d.index},
                 Append(acc.findex, d.index))
        ELSE Accumulator(acc.content, agg, acc.final, acc.completed, acc.findex)

\* (variant: a call is finalized without trying json.loads on its buffer)
process_delta_unparsed(acc, d) ==
    LET agg          == merge_delta(acc.agg, d)
        current_call == agg[d.index]
    IN  IF /\ current_call.id # ""
           /\ current_call.name # ""
           /\ d.index \notin acc.completed
        THEN Accumulator(acc.content, agg,
                 Append(acc.final,
                        ToolCallRequest(current_call.id, current_call.name,
                                        current_call.arguments)),
                 acc.completed \cup {d.index},
                 Append(acc.findex, d.index))
        ELSE Accumulator(acc.content, agg, acc.final, acc.completed, acc.findex)

\* the body of "for tc_chunk in delta_tool_calls"
process_delta(acc, d) ==
    LET agg          == merge_delta(acc.agg, d)
        current_call == agg[d.index]
    IN  IF /\ current_call.id # ""
           /\ current_call.name # ""
           /\ d.index \notin acc.completed
           /\ json_valid(current_call.arguments)
        THEN Accumulator(acc.content, agg,
                 Append(acc.final,
                        ToolCallRequest(current_call.id, current_call.name,
                                        current_call.arguments)),
                 acc.completed \cup {d.index},
                 Append(acc.findex, d.index))
        ELSE Accumulator(acc.content, agg, acc.final, acc.completed, acc.findex)

RECURSIVE process_deltas(_, _)
process_deltas(acc, deltas) ==
    IF deltas = <<>> THEN acc
    ELSE process_deltas(process_delta(acc, Head(deltas)), Tail(deltas))

\* one chunk of the stream: delta.content and delta.tool_calls
Chunk(content, tool_calls) == [content |-> content, tool_calls |-> tool_calls]

\* the body of "for chunk in stream"
process_chunk(acc, chunk) ==
    process_deltas([acc EXCEPT !.content = @ \o chunk.content], chunk.tool_calls)

\* (variant: a stream error discards what was accumulated)
on_stream_error_discard(acc) == NewAccumulator

\* "except Exception": the error is logged and printed, the locals are kept
on_stream_error(acc) == acc

\* (variant: the locals are module state and outlive the call)
run_locals_kept(left) == left

\* the locals a call starts with, whatever an earlier call left behind
run_locals(left) == NewAccumulator

\* final_message_dict
final_message_dict(acc) == AssistantMessage(acc.content, acc.final)

\* the whole function on a stream given as the sequence of the chunks it
\* delivers (before it ends or raises)
RECURSIVE consume_stream(_, _)
consume_stream(acc, stream) ==
    IF stream = <<>> THEN acc
    ELSE consume_stream(process_chunk(acc, Head(stream)), Tail(stream))

handle_streaming_response(stream) ==
    final_message_dict(consume_stream(NewAccumulator, stream))

(***************************************************************************)
(* Inputs of the assembler specification.                                  *)
(***************************************************************************)
Fragments ==
    { <<"{", "\"", "a", "\"", ":">>,
      <<"1", "}">>,
      <<"{", "}">>,
      <<"1">>,
      <<" ">> }

\* the first delta of a call: its id, its name, maybe some arguments
HeadDeltas ==
    { Delta(0, id, TRUE, "f", a) : id \in {"c1", "c2"}, a \in Fragments \cup {<<>>} }
    \cup { Delta(1, "c2", TRUE, "f", a) : a \in Fragments \cup {<<>>} }

\* a later delta of a call: more arguments
ArgumentDeltas ==
    { Delta(i, "", TRUE, "", a) : i \in Indices, a \in Fragments }

\* deltas that carry the id alone (no function) or the name alone
PartDeltas ==
    { Delta(0, "c1", FALSE, "", <<>>), Delta(1, "c2", FALSE, "", <<>>),
      Delta(0, "", TRUE, "f", <<>>), Delta(1, "", TRUE, "f", <<>>),
      Delta(0, "", TRUE, "g", <<>>) }

Deltas == HeadDeltas \cup ArgumentDeltas \cup PartDeltas

\* chunks carrying two tool-call deltas, one for each index
TwoDeltas ==
    { <<Delta(0, "c1", TRUE, "f", a), Delta(1, "c2", TRUE, "f", b)>> :
        a \in {<<"{", "}">>, <<"{", "\"", "a", "\"", ":">>}, b \in {<<>>, <<"{", "}">>} }

Chunks ==
    { Chunk("t", <<>>), Chunk("", <<>>) }
    \cup { Chunk("", <<d>>) : d \in Deltas }
    \cup { Chunk("t", <<d>>) : d \in PartDeltas }
    \cup { Chunk("", dl) : dl \in TwoDeltas }

CurrentAccumulator ==
    Accumulator(full_response_content, tool_calls_agg, final_tool_calls_list,
                completed_tool_call_indices, final_indices)

SetAccumulator(acc) ==
    /\ full_response_content' = acc.content
    /\ tool_calls_agg' = acc.agg
    /\ final_tool_calls_list' = acc.final
    /\ completed_tool_call_indices' = acc.completed
    /\ final_indices' = acc.findex

\* the locals and the history of a run that has read nothing yet
AsmFresh ==
    /\ full_response_content = ""
    /\ tool_calls_agg = EmptyAgg
    /\ final_tool_calls_list = <<>>
    /\ completed_tool_call_indices = {}
    /\ final_indices = <<>>
    /\ chunks_consumed = 0
    /\ received_arguments = [idx \in Indices |-> <<>>]
    /\ asm_pc = "streaming"
    /\ asm_ret = NoMessage

\* the state of the assembler variables when no stream is being read
AsmIdle ==
    /\ AsmFresh
    /\ stream_input = <<>>
    /\ run_results = <<>>

\* the argument fragments of a chunk's deltas, joined behind sent
RECURSIVE fragments_sent(_, _)
fragments_sent(sent, deltas) ==
    IF deltas = <<>> THEN sent
    ELSE LET d == Head(deltas)
         IN  fragments_sent(
                 IF d.has_function
                 THEN [sent EXCEPT ![d.index] = @ \o d.arguments] ELSE sent,
                 Tail(deltas))

\* the stream delivers one more chunk
stream_chunk ==
    /\ asm_pc = "streaming"
    /\ chunks_consumed < MaxChunks
    /\ \E chunk \in Chunks :
        LET acc == process_chunk(CurrentAccumulator, chunk)
        IN  /\ \A i \in Indices : Len(acc.agg[i].arguments) <= MaxArgLen
            /\ SetAccumulator(acc)
            /\ received_arguments' =
                    fragments_sent(received_arguments, chunk.tool_calls)
    /\ chunks_consumed' = chunks_consumed + 1
    /\ UNCHANGED <<asm_pc, asm_ret, stream_input, run_results,
                   mem_vars, disp_vars, loop_vars>>

\* the stream is exhausted: the for loop ends
stream_exhausted ==
    /\ asm_pc = "streaming"
    /\ asm_pc' = "returned"
    /\ asm_ret' = final_message_dict(CurrentAccumulator)
    /\ UNCHANGED <<full_response_content, tool_calls_agg, final_tool_calls_list,
                   completed_tool_call_indices, final_indices, chunks_consumed,
                   received_arguments, stream_input, run_results,
                   mem_vars, disp_vars, loop_vars>>

\* the stream raises: "except Exception" logs, the function goes on to return
stream_raises ==
    /\ asm_pc = "streaming"
    /\ asm_pc' = "raised"
    /\ asm_ret' = final_message_dict(on_stream_error(CurrentAccumulator))
    /\ UNCHANGED <<full_response_content, tool_calls_agg, final_tool_calls_list,
                   completed_tool_call_indices, final_indices, chunks_consumed,
                   received_arguments, stream_input, run_results,
                   mem_vars, disp_vars, loop_vars>>

(***************************************************************************)
(* Runs of handle_streaming_response over one given stream: the stream is  *)
(* stream_input, a run reads it chunk by chunk and ends when the stream is *)
(* exhausted or when it raises, and a later run reads the same stream.     *)
(***************************************************************************)
MaxRuns == 2

RunChunks ==
    { Chunk("t", <<>>),
      Chunk("", <<Delta(0, "c1", TRUE, "f", <<"{", "\"", "a", "\"", ":">>)>>),
      Chunk("", <<Delta(0, "", TRUE, "", <<"1", "}">>)>>),
      Chunk("", <<Delta(0, "c1", TRUE, "f", <<"{", "}">>)>>),
      Chunk("", <<Delta(1, "c2", TRUE, "f", <<>>)>>),
      Chunk("", <<Delta(1, "", TRUE, "", <<"{", "}">>)>>),
      Chunk("", <<Delta(0, "c1", TRUE, "f", <<"{", "}">>),
                  Delta(1, "c2", TRUE, "f", <<>>)>>) }

RunStreams == UNION { [1..n -> RunChunks] : n \in 0..MaxChunks }

\* how a run ended, after how many chunks, and what it returned
RunResult(ending, chunks, message) ==
    [ending |-> ending, chunks |-> chunks, message |-> message]

\* "for chunk in stream": the next chunk of the stream is processed
run_chunk ==
    /\ asm_pc = "streaming"
    /\ chunks_consumed < Len(stream_input)
    /\ LET chunk == stream_input[chunks_consumed + 1]
       IN  /\ SetAccumulator(process_chunk(CurrentAccumulator, chunk))
           /\ received_arguments' =
                   fragments_sent(received_arguments, chunk.tool_calls)
    /\ chunks_consumed' = chunks_consumed + 1
    /\ UNCHANGED <<asm_pc, asm_ret, stream_input, run_results,
                   mem_vars, disp_vars, loop_vars>>

\* the stream is exhausted: the for loop ends and the message is returned
run_exhausted ==
    /\ asm_pc = "streaming"
    /\ chunks_consumed = Len(stream_input)
    /\ asm_pc' = "returned"
    /\ asm_ret' = final_message_dict(CurrentAccumulator)
    /\ run_results' = Append(run_results,
                             RunResult("returned", chunks_consumed, asm_ret'))
    /\ UNCHANGED <<full_response_content, tool_calls_agg, final_tool_calls_list,
                   completed_tool_call_indices, final_indices, chunks_consumed,
                   received_arguments, stream_input,
                   mem_vars, disp_vars, loop_vars>>

\* the stream raises instead of delivering its next chunk
run_raises ==
    /\ asm_pc = "streaming"
    /\ asm_pc' = "raised"
    /\ asm_ret' = final_message_dict(on_stream_error(CurrentAccumulator))
    /\ run_results' = Append(run_results,
                             RunResult("raised", chunks_consumed, asm_ret'))
    /\ UNCHANGED <<full_response_content, tool_calls_agg, final_tool_calls_list,
                   completed_tool_call_indices, final_indices, chunks_consumed,
                   received_arguments, stream_input,
                   mem_vars, disp_vars, loop_vars>>

\* handle_streaming_response is called again, on the same chunks
run_again ==
    /\ asm_pc \in {"returned", "raised"}
    /\ Len(run_results) < MaxRuns
    /\ SetAccumulator(run_locals(CurrentAccumulator))
    /\ chunks_consumed' = 0
    /\ received_arguments' = [idx \in Indices |-> <<>>]
    /\ asm_pc' = "streaming"
    /\ asm_ret' = NoMessage
    /\ UNCHANGED <<stream_input, run_results, mem_vars, disp_vars, loop_vars>>


(***************************************************************************)
(* json.loads, the value: its kind and, for an object, its member.         *)
(***************************************************************************)
\* a character sequence as a string
RECURSIVE Text(_)
Text(s) == IF s = <<>> THEN "" ELSE Head(s) \o Text(Tail(s))

\* "object" | "number" | "string" for a valid string
json_kind(s) ==
    LET c == s[SkipWs(s, 1)]
    IN  IF c = "{" THEN "object" ELSE IF c = "1" THEN "number" ELSE "string"

\* the keys of the dict json.loads(s) returns, s a valid object
json_keys(s) ==
    LET j == SkipWs(s, SkipWs(s, 1) + 1)
    IN  IF s[j] = "}" THEN {}
        ELSE { Text(SubSeq(s, j + 1, ScanString(s, j) - 2)) }

(***************************************************************************)
(* Tools (base_tool.Tool and the registry built by initialize_tools).      *)
(***************************************************************************)
\* the tools of the model: "f" declares a required parameter and validates
\* its arguments first (as WeatherTool does), "now" declares none and does
\* not validate (as DateTimeTool), "api" declares a required parameter in
\* its schema, does not call validate_args and takes its parameters by
\* name in execute's signature (as APIIntegrationTool);
\* "semantic_memory_search" is VectorSearchTool
ToolRegistry ==
    [ f   |-> [required |-> <<"a">>, validates |-> TRUE,  signature |-> "kwargs"],
      now |-> [required |-> <<>>,    validates |-> FALSE, signature |-> "kwargs"],
      api |-> [required |-> <<"a">>, validates |-> FALSE, signature |-> "named"],
      semantic_memory_search |->
              [required |-> <<"query">>, validates |-> TRUE,
               signature |-> "kwargs"] ]

RegisteredTools == DOMAIN ToolRegistry

\* Tool.validate_args on the keys of a dict (no value of the model's JSON
\* is null): the message of the ToolExecutionError raised, "" if none
RECURSIVE JoinNames(_)
JoinNames(names) ==
    IF names = <<>> THEN ""
    ELSE IF Len(names) = 1 THEN names[1]
    ELSE names[1] \o ", " \o JoinNames(Tail(names))

validate_args(required, keys) ==
    LET missing == SelectSeq(required, LAMBDA q : q \notin keys)
    IN  IF missing # <<>>
        THEN "Missing required parameters: " \o JoinNames(missing)
        ELSE ""

\* tool.execute(**function_args) binds the dict to execute's signature:
\* "**kwargs" takes any keys; named parameters need every parameter
\* without default and no key that is not a parameter (else TypeError)
binds_arguments(tool, keys) ==
    \/ tool.signature = "kwargs"
    \/ /\ \A i \in 1..Len(tool.required) : tool.required[i] \in keys
       /\ \A k \in keys : \E i \in 1..Len(tool.required) : tool.required[i] = k

\* what a tool's own logic does once its arguments are accepted
ToolBehaviours ==
    { [kind |-> "return_str",   text |-> "Sunny"],
      [kind |-> "return_str",   text |-> ""],
      [kind |-> "return_other", text |-> "{'status': 'success'}"],
      [kind |-> "raise_ToolExecutionError", text |-> "API key missing."],
      [kind |-> "raise_Exception",          text |-> "KeyError: 'main'"],
      [kind |-> "raise_Exception",          text |-> "ValueError: bad key sk-1"],
      [kind |-> "raise_BaseException",      text |-> "KeyboardInterrupt"] }

(***************************************************************************)
(* execute_tool_call                                                       *)
(***************************************************************************)
\* the end of a call: it returned a str, returned another value (text is
\* its str()), or an exception left it
Returned_str(text, executed)   == [how |-> "return", is_str |-> TRUE,  text |-> text, executed |-> executed]
Returned_other(text, executed) == [how |-> "return", is_str |-> FALSE, text |-> text, executed |-> executed]
Propagated(text, executed)     == [how |-> "raise",  is_str |-> FALSE, text |-> text, executed |-> executed]

\* "return result": the value the tool returned, as it is
tool_result(behaviour) ==
    IF behaviour.kind = "return_str"
    THEN Returned_str(behaviour.text, TRUE)
    ELSE Returned_other(behaviour.text, TRUE)

\* (variant: only ToolExecutionError is caught around tool.execute)
run_tool_uncaught(function_name, arguments_str, behaviour) ==
    LET tool == ToolRegistry[function_name]
        is_dict == arguments_str = <<>> \/ json_kind(arguments_str) = "object"
        keys    == IF arguments_str = <<>> THEN {} ELSE json_keys(arguments_str)
        complaint == IF is_dict /\ tool.validates
                     THEN validate_args(tool.required, keys) ELSE ""
    IN  IF ~is_dict \/ ~binds_arguments(tool, keys)
        THEN Propagated("TypeError", FALSE)
        ELSE IF complaint # ""
        THEN Returned_str("Error executing tool " \o function_name \o ": " \o complaint, TRUE)
        ELSE CASE behaviour.kind = "raise_ToolExecutionError" ->
                    Returned_str("Error executing tool " \o function_name \o ": "
                                 \o behaviour.text, TRUE)
               [] behaviour.kind \in {"raise_Exception", "raise_BaseException"} ->
                    Propagated(behaviour.text, TRUE)
               [] behaviour.kind = "return_str" -> Returned_str(behaviour.text, TRUE)
               [] OTHER -> Returned_other(behaviour.text, TRUE)

\* (variant: the message of the exception is put into the returned string)
critical_error_with_cause(function_name, e) ==
    "Critical Error executing tool " \o function_name \o ": " \o e

\* "except Exception as e: ...; return f"Critical Error executing tool
\* {function_name}."": e goes to the log only
critical_error(function_name, e) ==
    "Critical Error executing tool " \o function_name \o "."

\* the second try block: tool = tool_map[name]; tool.execute(**function_args)
run_tool(function_name, arguments_str, behaviour) ==
    LET tool == ToolRegistry[function_name]
        \* function_args: {} for an empty string, else the parsed value
        is_dict == arguments_str = <<>> \/ json_kind(arguments_str) = "object"
        keys    == IF arguments_str = <<>> THEN {} ELSE json_keys(arguments_str)
        complaint == IF is_dict /\ tool.validates
                     THEN validate_args(tool.required, keys) ELSE ""
    IN  IF ~is_dict \/ ~binds_arguments(tool, keys)
        \* "**function_args" on a value that is no mapping, or on a dict
        \* that does not fit the signature: TypeError
        THEN Returned_str(critical_error(function_name, "TypeError"), FALSE)
        ELSE IF complaint # ""
        THEN Returned_str("Error executing tool " \o function_name \o ": " \o complaint, TRUE)
        ELSE CASE behaviour.kind = "raise_ToolExecutionError" ->
                    Returned_str("Error executing tool " \o function_name \o ": "
                                 \o behaviour.text, TRUE)
               [] behaviour.kind = "raise_Exception" ->
                    Returned_str(critical_error(function_name, behaviour.text), TRUE)
               [] behaviour.kind = "raise_BaseException" ->
                    Propagated(behaviour.text, TRUE)
               [] OTHER -> tool_result(behaviour)

\* (variant: the name is not looked up in tool_map before tool_map[name];
\* the KeyError is then caught by "except Exception")
execute_tool_call_no_lookup(tool_call_data, tmap, behaviour, prog) ==
    LET function_name == tool_call_data.name
        arguments_str == tool_call_data.arguments
    IN  IF function_name = ""
        THEN Returned_str("Error: Tool call missing function name.", FALSE)
        ELSE IF arguments_str # <<>> /\ ~json_valid(arguments_str)
        THEN Returned_str("Error: Invalid JSON args for " \o function_name
                          \o (IF prog = "app"
                              THEN ": " \o Text(arguments_str) ELSE ""), FALSE)
        ELSE IF function_name \notin tmap
        THEN Returned_str("Critical Error executing tool " \o function_name \o ".", FALSE)
        ELSE run_tool(function_name, arguments_str, behaviour)

execute_tool_call(tool_call_data, tmap, behaviour, prog) ==
    LET function_name == tool_call_data.name
        arguments_str == tool_call_data.arguments
    IN  IF function_name = ""
        THEN Returned_str("Error: Tool call missing function name.", FALSE)
        ELSE IF arguments_str # <<>> /\ ~json_valid(arguments_str)
        THEN Returned_str("Error: Invalid JSON args for " \o function_name
                          \o (IF prog = "app"
                              THEN ": " \o Text(arguments_str) ELSE ""), FALSE)
        ELSE IF function_name \notin tmap
        THEN Returned_str("Error: Unknown function '" \o function_name \o "'", FALSE)
        ELSE run_tool(function_name, arguments_str, behaviour)

(***************************************************************************)
(* Inputs of the dispatcher specification.                                 *)
(***************************************************************************)
DispatchNames == {"", "f", "now", "api", "g"}

DispatchArguments ==
    { <<>>,
      <<"{", "}">>,
      <<"{", "\"", "a", "\"", ":", "1", "}">>,
      <<"{", "\"", "\"", ":", "1", "}", " ">>,
      <<"1">>,
      <<"\"", "a", "\"">>,
      <<"{", "\"", "a", "\"", ":">>,
      <<"}">> }

NoCall == ToolCallRequest("", "", <<>>)
NoReturn == [how |-> "none", is_str |-> FALSE, text |-> "", executed |-> FALSE]
NoBehaviour == [kind |-> "none", text |-> ""]

Programs == {"agent_core", "app"}

\* the classes initialize_tools instantiates, in the order of its list
TOOL_CLASSES == <<"f", "now", "api">>

\* the name of tools.VectorSearchTool
VECTOR_SEARCH == "semantic_memory_search"

\* the process has started: every constructor succeeded, chat_agent runs
StartedUp ==
    /\ ctor_fails = {}
    /\ vector_db_ready = TRUE
    /\ tools_list = TOOL_CLASSES \o <<VECTOR_SEARCH>>
    /\ reg_pc = "chat_agent"

DispIdle ==
    /\ StartedUp
    /\ tool_map = RegisteredTools
    /\ disp_call = NoCall
    /\ tool_behaviour = NoBehaviour
    /\ disp_ret = NoReturn
    /\ tool_executions = 0

\* one call of execute_tool_call, on any tool_call_data
dispatch ==
    /\ \E id \in {"c1"}, name \in DispatchNames, arguments \in DispatchArguments,
          behaviour \in ToolBehaviours :
        LET data == ToolCallRequest(id, name, arguments)
            ret  == execute_tool_call(data, tool_map, behaviour, variant)
        IN  /\ disp_call' = data
            /\ tool_behaviour' = behaviour
            /\ disp_ret' = ret
            /\ tool_executions' =
                  IF ret.executed /\ tool_executions < MaxExecutions
                  THEN tool_executions + 1 ELSE tool_executions
    /\ UNCHANGED <<variant, tool_map, ctor_fails, vector_db_ready, tools_list,
                   reg_pc, mem_vars, asm_vars, loop_vars>>

(***************************************************************************)
(* initialize_tools, called when the module is loaded, and the start of    *)
(* chat_agent under "if __name__ == '__main__'".                           *)
(***************************************************************************)
\* what the call of one constructor inside the list display leads to: an
\* exception raised by it leaves initialize_tools and the module
construct(cls, list, fails) ==
    IF cls \in fails THEN [pc |-> "aborted", list |-> list]
    ELSE [pc |-> "list", list |-> Append(list, cls)]

\* tools_list = [tools.WeatherTool(), ...]: the next element is built
construct_tool ==
    /\ reg_pc = "list"
    /\ Len(tools_list) < Len(TOOL_CLASSES)
    /\ LET out == construct(TOOL_CLASSES[Len(tools_list) + 1], tools_list,
                            ctor_fails)
       IN  /\ reg_pc' = out.pc
           /\ tools_list' = out.list
    /\ UNCHANGED <<variant, tool_map, disp_call, tool_behaviour, disp_ret,
                   tool_executions, ctor_fails, vector_db_ready,
                   mem_vars, asm_vars, loop_vars>>

\* "if vector_db.is_ready(): tools_list.append(tools.VectorSearchTool())"
append_vector_search ==
    /\ reg_pc = "list"
    /\ Len(tools_list) = Len(TOOL_CLASSES)
    /\ LET out == IF vector_db_ready
                  THEN construct(VECTOR_SEARCH, tools_list, ctor_fails)
                  ELSE [pc |-> "list", list |-> tools_list]
       IN  /\ reg_pc' = (IF out.pc = "list" THEN "map" ELSE out.pc)
           /\ tools_list' = out.list
    /\ UNCHANGED <<variant, tool_map, disp_call, tool_behaviour, disp_ret,
                   tool_executions, ctor_fails, vector_db_ready,
                   mem_vars, asm_vars, loop_vars>>

\* tool_map = {t.name: t for t in tools_list}; return schemas, tool_map
build_tool_map ==
    /\ reg_pc = "map"
    /\ tool_map' = { tools_list[i] : i \in 1..Len(tools_list) }
    /\ reg_pc' = "returned"
    /\ UNCHANGED <<variant, disp_call, tool_behaviour, disp_ret,
                   tool_executions, ctor_fails, vector_db_ready, tools_list,
                   mem_vars, asm_vars, loop_vars>>

\* the main block: app.py exits when the vector DB is not ready, then
\* chat_agent() is called
enter_chat_agent ==
    /\ reg_pc = "returned"
    /\ reg_pc' = (IF variant = "app" /\ ~vector_db_ready
                  THEN "exited" ELSE "chat_agent")
    /\ UNCHANGED <<variant, tool_map, disp_call, tool_behaviour, disp_ret,
                   tool_executions, ctor_fails, vector_db_ready, tools_list,
                   mem_vars, asm_vars, loop_vars>>



(***************************************************************************)
(* chat_agent's variables before the loop has read any input.              *)
(***************************************************************************)
LoopIdle ==
    /\ pc = "input"
    /\ turns = 0
    /\ response_stream = <<>>
    /\ current_messages = <<>>
    /\ response_message_dict = NoMessage
    /\ tc_index = 0
    /\ outages = 0
    /\ last_error = "none"
    /\ first_stream_raised = FALSE
    /\ turn_trace = <<>>

(***************************************************************************)
(* Inputs of the memory specification.                                     *)
(***************************************************************************)
SystemPrompts == {SystemMessage("S"), SystemMessage("You are OmniAgent.")}

MemMessages ==
    { UserMessage("Hi"),
      AssistantMessage("Hi there", <<>>) }

Budgets == {0, 23, 40, 1048576}

MemRet(op, ok, msgs) == [op |-> op, ok |-> ok, msgs |-> msgs]

(***************************************************************************)
(* RedisPersistentMemory.__init__                                          *)
(***************************************************************************)
\* (variant: a differing first entry is replaced by the system message)
list_after_init_replace(lst, sysmsg, request_ok) ==
    IF sysmsg = NoMessage \/ ~request_ok THEN lst
    ELSE IF lst = <<>> THEN <<json_dumps(sysmsg)>>
    ELSE IF json_loads(lst[1]) # sysmsg THEN <<json_dumps(sysmsg)>> \o Tail(lst)
    ELSE lst

\* the list after the "store system message" block; request_ok says
\* whether the lindex and lpush requests succeed
list_after_init(lst, sysmsg, request_ok) ==
    IF sysmsg = NoMessage \/ ~request_ok THEN lst
    ELSE IF lst = <<>> THEN <<json_dumps(sysmsg)>>
    ELSE IF json_loads(lst[1]) # sysmsg THEN <<json_dumps(sysmsg)>> \o lst
    ELSE lst

\* a new instance over the store: connected is the outcome of reading the
\* credentials, creating the client and the first ping
init_instance(sysmsg, budget, connected, request_ok) ==
    LET newlist == IF connected
                   THEN list_after_init(redis_list, sysmsg, request_ok)
                   ELSE redis_list
    IN  /\ Len(newlist) <= MaxLog
        /\ system_message' = sysmsg
        /\ max_tokens' = budget
        /\ current_token_count' = 0
        /\ initialized' = connected
        /\ redis_list' = newlist
        /\ mem_ret' = MemRet("init", connected, <<>>)
        /\ UNCHANGED <<redis_up, asm_vars, disp_vars, loop_vars>>

\* the process is started again: a new instance, the same budget, the
\* same or another system prompt
Construct ==
    \E sysmsg \in SystemPrompts \cup {NoMessage},
       connected \in (IF redis_up THEN BOOLEAN ELSE {FALSE}),
       request_ok \in BOOLEAN :
        init_instance(sysmsg, max_tokens, connected, request_ok)

(***************************************************************************)
(* RedisPersistentMemory.is_ready                                          *)
(***************************************************************************)
\* (variant: is_ready() answers from the flag alone, without the ping)
is_ready_no_ping(init, up) == init

\* the value is_ready() returns, and self.initialized after the call
is_ready_value(init, up) == init /\ up
\* (variant: a failed ping leaves self.initialized as it is)
is_ready_latch_kept(init, up) == init

\* self.initialized after is_ready(): set to False when the ping raises
is_ready_latch(init, up) == init /\ up

is_ready ==
    /\ initialized' = is_ready_latch(initialized, redis_up)
    /\ mem_ret' = MemRet("is_ready", is_ready_value(initialized, redis_up), <<>>)
    /\ UNCHANGED <<redis_list, redis_up, system_message, max_tokens,
                   current_token_count, asm_vars, disp_vars, loop_vars>>

(***************************************************************************)
(* RedisPersistentMemory.add_message                                       *)
(***************************************************************************)
\* add_message as a function of the instance, the store and the outcomes
\* of the rpush request and of the VectorDB mirroring step: the returned
\* flag, the list and self.initialized after the call
add_message_outcome(message, init, up, lst, rpush_ok, mirror_ok) ==
    IF ~is_ready_value(init, up)
    THEN [ok |-> FALSE, list |-> lst, initialized |-> is_ready_latch(init, up)]
    ELSE IF ~rpush_ok
    THEN [ok |-> FALSE, list |-> lst, initialized |-> init]
    ELSE [ok |-> mirror_ok,
          list |-> Append(lst, json_dumps(message)), initialized |-> init]

add_message ==
    /\ \E message \in MemMessages,
          rpush_ok \in (IF redis_up THEN BOOLEAN ELSE {FALSE}),
          mirror_ok \in BOOLEAN :
        LET out == add_message_outcome(message, initialized, redis_up,
                                       redis_list, rpush_ok, mirror_ok)
        IN  /\ Len(out.list) <= MaxLog
            /\ redis_list' = out.list
            /\ initialized' = out.initialized
            /\ redis_up' = rpush_ok
            /\ mem_ret' = MemRet("add", out.ok, <<>>)
    /\ UNCHANGED <<system_message, max_tokens, current_token_count, asm_vars, disp_vars, loop_vars>>

(***************************************************************************)
(* RedisPersistentMemory.get_messages                                      *)
(***************************************************************************)
\* get_messages as a function of the instance, the store and the outcome
\* of the llen / lrange requests
get_messages_outcome(init, up, lst, sysmsg, budget, count, read_ok) ==
    IF ~is_ready_value(init, up)
    THEN [messages |-> fallback_messages(sysmsg), tokens |-> count,
          initialized |-> is_ready_latch(init, up)]
    ELSE IF ~read_ok
    THEN [messages |-> fallback_messages(sysmsg), tokens |-> count,
          initialized |-> init]
    ELSE LET w == read_window(lst, sysmsg, budget)
         IN  [messages |-> w.messages, tokens |-> w.tokens, initialized |-> init]

get_messages ==
    /\ \E read_ok \in (IF redis_up THEN BOOLEAN ELSE {FALSE}) :
        LET out == get_messages_outcome(initialized, redis_up, redis_list,
                                        system_message, max_tokens,
                                        current_token_count, read_ok)
        IN  /\ initialized' = out.initialized
            /\ current_token_count' = out.tokens
            /\ redis_up' = read_ok
            /\ mem_ret' = MemRet("get",
                                 is_ready_value(initialized, redis_up) /\ read_ok,
                                 out.messages)
    /\ UNCHANGED <<redis_list, system_message, max_tokens, asm_vars, disp_vars, loop_vars>>

(***************************************************************************)
(* The store's environment: it becomes unreachable and reachable again.    *)
(***************************************************************************)
StoreDown ==
    /\ redis_up
    /\ redis_up' = FALSE
    /\ UNCHANGED <<redis_list, initialized, system_message, max_tokens,
                   current_token_count, mem_ret, asm_vars, disp_vars, loop_vars>>

StoreUp ==
    /\ ~redis_up
    /\ redis_up' = TRUE
    /\ UNCHANGED <<redis_list, initialized, system_message, max_tokens,
                   current_token_count, mem_ret, asm_vars, disp_vars, loop_vars>>

(***************************************************************************)
(* Specification of the memory component on its own: the state after the   *)
(* first construction over an empty store, then any calls and restarts.    *)
(***************************************************************************)
InitMem ==
    \E sysmsg \in SystemPrompts \cup {NoMessage}, budget \in Budgets,
       up \in BOOLEAN, connected \in BOOLEAN, request_ok \in BOOLEAN :
        /\ connected => up
        /\ redis_up = up
        /\ redis_list = (IF connected /\ request_ok /\ sysmsg # NoMessage
                         THEN <<json_dumps(sysmsg)>> ELSE <<>>)
        /\ initialized = connected
        /\ system_message = sysmsg
        /\ max_tokens = budget
        /\ current_token_count = 0
        /\ mem_ret = MemRet("init", connected, <<>>)
        /\ AsmIdle
        /\ DispIdle
        /\ variant = "app"
        /\ LoopIdle

NextMem ==
    \/ Construct
    \/ is_ready
    \/ add_message
    \/ get_messages
    \/ StoreDown
    \/ StoreUp

SpecMem == InitMem /\ [][NextMem]_vars

(***************************************************************************)
(* Specification of handle_streaming_response on its own: one stream is    *)
(* read chunk by chunk until it ends or raises.                            *)
(***************************************************************************)
MemIdle ==
    /\ redis_list = <<>>
    /\ redis_up = TRUE
    /\ initialized = FALSE
    /\ system_message = NoMessage
    /\ max_tokens = 0
    /\ current_token_count = 0
    /\ mem_ret = MemRet("init", FALSE, <<>>)

InitAsm == AsmIdle /\ MemIdle /\ DispIdle /\ variant = "app" /\ LoopIdle

InitRun ==
    /\ MemIdle
    /\ DispIdle
    /\ variant = "app"
    /\ LoopIdle
    /\ AsmFresh
    /\ stream_input \in RunStreams
    /\ run_results = <<>>

NextRun == run_chunk \/ run_exhausted \/ run_raises \/ run_again

SpecRun == InitRun /\ [][NextRun]_vars

NextAsm ==
    \/ stream_chunk
    \/ stream_exhausted
    \/ stream_raises

SpecAsm == InitAsm /\ [][NextAsm]_vars

(***************************************************************************)
(* Specification of execute_tool_call on its own.                          *)
(***************************************************************************)
InitDisp == AsmIdle /\ MemIdle /\ DispIdle /\ variant \in Programs /\ LoopIdle

NextDisp == dispatch

SpecDisp == InitDisp /\ [][NextDisp]_vars

(***************************************************************************)
(* Specification of the start of the process: the environment decides      *)
(* which constructors raise and whether the vector DB is ready.            *)
(***************************************************************************)
InitStart ==
    /\ MemIdle
    /\ AsmIdle
    /\ LoopIdle
    /\ variant \in Programs
    /\ ctor_fails \in SUBSET ({TOOL_CLASSES[i] : i \in 1..Len(TOOL_CLASSES)}
                                \cup {VECTOR_SEARCH})
    /\ vector_db_ready \in BOOLEAN
    /\ tools_list = <<>>
    /\ reg_pc = "list"
    /\ tool_map = {}
    /\ disp_call = NoCall
    /\ tool_behaviour = NoBehaviour
    /\ disp_ret = NoReturn
    /\ tool_executions = 0

NextStart ==
    \/ construct_tool
    \/ append_vector_search
    \/ build_tool_map
    \/ enter_chat_agent

SpecStart == InitStart /\ [][NextStart]_vars

(***************************************************************************)
(* chat_agent: the console loop.  One turn is                              *)
(*   input -> add user message -> get_messages -> first completion ->      *)
(*   assemble -> add -> [for each tool call: dispatch, add] ->             *)
(*   get_messages -> second completion -> assemble -> add.                 *)
(***************************************************************************)
SYSTEM_MESSAGE == SystemMessage("S")
LOOP_MAX_TOKENS == 1048576

\* what the user types
UserInputs == {"Hi", "quit"}

\* the streams of the model, each the sequence of chunks delivered before
\* the stream ends or raises: no chunk; text; two calls, the first in two
\* fragments; the same stream cut after the first call is complete
LoopStreams ==
    { <<>>,
      <<Chunk("Hi there", <<>>)>>,
      <<Chunk("", <<Delta(0, "c1", TRUE, "g", <<"{", "\"", "a", "\"", ":">>)>>),
        Chunk("", <<Delta(0, "", TRUE, "", <<"1", "}">>),
                    Delta(1, "c2", TRUE, "now", <<"{">>)>>),
        Chunk("", <<Delta(1, "", TRUE, "", <<"}">>)>>)>>,
      <<Chunk("", <<Delta(0, "c1", TRUE, "f", <<"{", "\"", "a", "\"", ":">>)>>),
        Chunk("", <<Delta(0, "", TRUE, "", <<"1", "}">>),
                    Delta(1, "c2", TRUE, "now", <<"{">>)>>)>> }

\* the stream of LoopStreams that stops in the middle of its second call
CutStream ==
    <<Chunk("", <<Delta(0, "c1", TRUE, "f", <<"{", "\"", "a", "\"", ":">>)>>),
      Chunk("", <<Delta(0, "", TRUE, "", <<"1", "}">>),
                  Delta(1, "c2", TRUE, "now", <<"{">>)>>)>>

\* how the first stream of a turn may stop after its chunks: TRUE is "it
\* raises".  A stream may raise before its first chunk or in the middle of
\* a call; the complete streams end.
StreamEndings(stream) ==
    IF stream \in {<<>>, CutStream} THEN BOOLEAN ELSE {FALSE}

\* (variant: a stream error leaves the function with an empty message)
stream_result_lost(stream, raised) ==
    IF raised THEN AssistantMessage("", <<>>)
    ELSE handle_streaming_response(stream)

\* what handle_streaming_response returns for a stream that delivers the
\* chunks of "stream" and then ends or raises
stream_result(stream, raised) ==
    final_message_dict(
        IF raised THEN on_stream_error(consume_stream(NewAccumulator, stream))
        ELSE consume_stream(NewAccumulator, stream))

\* the streams of the second completion: text, or one more tool call
FinalStreams ==
    { <<Chunk("Hi there", <<>>)>>,
      <<Chunk("", <<Delta(0, "c3", TRUE, "now", <<"{", "}">>)>>)>> }

\* what the tools called by the loop do
LoopBehaviours ==
    { b \in ToolBehaviours :
        /\ b.kind \in {"return_str", "raise_Exception", "raise_BaseException"}
        /\ b.text # "" }

\* how litellm.completion ends
CompletionOutcomes == {"stream", "APIError", "Exception"}

\* one entry of turn_trace
AddEvent(message) ==
    [op |-> "add", message |-> message, id |-> "", tools |-> FALSE]
CompletionEvent(tools) ==
    [op |-> "completion", message |-> NoMessage, id |-> "", tools |-> tools]
DispatchEvent(id) ==
    [op |-> "dispatch", message |-> NoMessage, id |-> id, tools |-> FALSE]

\* a request to the store under the loop: it fails when the store is
\* unreachable, or becomes unreachable while it is served
store_request(request_ok) ==
    /\ (redis_up /\ ~request_ok) => outages < MaxOutages
    /\ outages' = IF redis_up /\ ~request_ok THEN outages + 1 ELSE outages

\* the store becomes unreachable between two calls
store_outage ==
    /\ redis_up
    /\ outages < MaxOutages
    /\ redis_up' = FALSE
    /\ outages' = outages + 1
    /\ UNCHANGED <<redis_list, initialized, system_message, max_tokens,
                   current_token_count, mem_ret, asm_vars, disp_vars,
                   pc, turns, response_stream, current_messages,
                   response_message_dict, tc_index, last_error,
                   first_stream_raised, turn_trace>>

\* memory.add_message(message) called by the loop; mem_ret holds the
\* returned flag
loop_add_message(message, rpush_ok, mirror_ok) ==
    LET out == add_message_outcome(message, initialized, redis_up, redis_list,
                                   rpush_ok, mirror_ok)
    IN  /\ redis_list' = out.list
        /\ initialized' = out.initialized
        /\ redis_up' = rpush_ok
        /\ store_request(rpush_ok)
        /\ mem_ret' = MemRet("add", out.ok, <<>>)
        /\ UNCHANGED <<system_message, max_tokens, current_token_count>>

\* memory.get_messages() called by the loop
loop_get_messages(read_ok) ==
    LET out == get_messages_outcome(initialized, redis_up, redis_list,
                                    system_message, max_tokens,
                                    current_token_count, read_ok)
    IN  /\ initialized' = out.initialized
        /\ current_token_count' = out.tokens
        /\ redis_up' = read_ok
        /\ store_request(read_ok)
        /\ current_messages' = out.messages
        /\ mem_ret' = MemRet("get", is_ready_value(initialized, redis_up) /\ read_ok,
                             out.messages)
        /\ UNCHANGED <<redis_list, system_message, max_tokens>>

StoreOutcomes == IF redis_up THEN BOOLEAN ELSE {FALSE}

\* (variant: the loop goes on whatever add_message returned)
after_user_add_ignored(added) == "thinking"

\* "if not memory.add_message(user_message): ...; continue"
after_user_add(added) == IF added THEN "thinking" ELSE "input"

\* input(), "quit", the user message and its add_message
await_input ==
    /\ pc = "input"
    /\ turns < MaxTurns
    /\ turns' = turns + 1
    /\ \E user_input \in UserInputs :
        IF user_input = "quit"
        THEN /\ pc' = "exited"
             /\ turn_trace' = <<>>
             /\ UNCHANGED <<mem_vars, outages>>
        ELSE \E rpush_ok \in StoreOutcomes, mirror_ok \in BOOLEAN :
                LET user_message == UserMessage(user_input)
                IN  /\ loop_add_message(user_message, rpush_ok, mirror_ok)
                    /\ turn_trace' = <<AddEvent(user_message)>>
                    /\ pc' = after_user_add(mem_ret'.ok)
    /\ response_message_dict' = NoMessage
    /\ tc_index' = 0
    /\ last_error' = "none"
    /\ first_stream_raised' = FALSE
    /\ UNCHANGED <<response_stream, current_messages, asm_vars, disp_vars>>

\* (variant: every exception caught by the loop ends it)
after_exception_break(e) == "exited"

\* the except clauses of the loop: APIError and AgentException are logged
\* and the while loop goes on; KeyboardInterrupt and any other Exception
\* break
after_exception(e) ==
    IF e \in {"APIError", "AgentException"} THEN "input" ELSE "exited"

\* input() is interrupted: "except KeyboardInterrupt: ...; break"
input_interrupted ==
    /\ pc = "input"
    /\ last_error' = "KeyboardInterrupt"
    /\ pc' = after_exception("KeyboardInterrupt")
    /\ UNCHANGED <<turns, response_stream, current_messages, response_message_dict,
                   tc_index, outages, first_stream_raised, turn_trace,
                   mem_vars, asm_vars, disp_vars>>

\* (variant: the tools are offered in every request)
tools_offered_always(request) == TRUE

\* tools=active_tool_schemas in the first request, none in the second
tools_offered(request) == request = 1

\* memory.get_messages() and litellm.completion(..., stream=True):
\* the request returns a stream, raises APIError (the turn ends) or
\* raises something else (the loop ends)
request_completion(request, streams, here, there) ==
    /\ pc = here
    /\ \E read_ok \in StoreOutcomes, outcome \in CompletionOutcomes,
          stream \in streams \cup {<<>>} :
        /\ loop_get_messages(read_ok)
        /\ turn_trace' = Append(turn_trace,
                                CompletionEvent(tools_offered(request)))
        /\ IF outcome = "stream"
           THEN /\ response_stream' = stream
                /\ last_error' = "none"
                /\ pc' = there
                /\ first_stream_raised' \in
                      (IF request = 1 THEN StreamEndings(stream)
                       ELSE {first_stream_raised})
           ELSE /\ stream = <<>>
                /\ response_stream' = <<>>
                /\ last_error' = outcome
                /\ pc' = after_exception(outcome)
                /\ UNCHANGED first_stream_raised
    /\ UNCHANGED <<turns, response_message_dict, tc_index, asm_vars, disp_vars>>

first_completion == request_completion(1, LoopStreams, "thinking", "streaming_1")

\* (variant: a first message without tool calls is followed by the second
\* completion as well)
after_first_message_always(message) ==
    IF message.tool_calls # <<>> THEN "tools" ELSE "processing"

\* "if response_message_dict.get("tool_calls"): ... elif ... else ..."
after_first_message(message) ==
    IF message.tool_calls # <<>> THEN "tools" ELSE "input"

\* handle_streaming_response(response_stream) and the add_message of its
\* result, whose returned flag the loop does not look at
first_response ==
    /\ pc = "streaming_1"
    /\ \E rpush_ok \in StoreOutcomes, mirror_ok \in BOOLEAN :
        LET message == stream_result(response_stream, first_stream_raised)
        IN  /\ loop_add_message(message, rpush_ok, mirror_ok)
            /\ turn_trace' = Append(turn_trace, AddEvent(message))
            /\ response_message_dict' = message
            /\ pc' = after_first_message(message)
            /\ tc_index' = IF message.tool_calls # <<>> THEN 1 ELSE 0
    /\ response_stream' = <<>>
    /\ last_error' = "none"
    /\ UNCHANGED <<turns, current_messages, first_stream_raised,
                   asm_vars, disp_vars>>

\* (variant: the tool message does not name the call it answers)
result_msg_without_id(tc_data, result_content) == ToolMessage("", result_content)

\* result_msg: {"role": "tool", "tool_call_id": tc_data.get('id'),
\*              "content": str(result_content)}
result_msg(tc_data, result_content) == ToolMessage(tc_data.id, result_content)

\* one pass of "for tc_data in response_message_dict["tool_calls"]":
\* execute_tool_call, then add_message of the tool message; an exception
\* that leaves execute_tool_call ends the loop
tool_call_step ==
    /\ pc = "tools"
    /\ \E behaviour \in LoopBehaviours, rpush_ok \in StoreOutcomes,
          mirror_ok \in BOOLEAN :
        LET tool_calls == response_message_dict.tool_calls
            tc_data == tool_calls[tc_index]
            ret == execute_tool_call(tc_data, tool_map, behaviour, variant)
            message == result_msg(tc_data, ret.text)
        IN  IF ret.how = "raise"
            THEN /\ pc' = after_exception(ret.text)
                 /\ last_error' = ret.text
                 /\ turn_trace' = Append(turn_trace, DispatchEvent(tc_data.id))
                 /\ UNCHANGED <<tc_index, mem_vars, outages>>
            ELSE /\ loop_add_message(message, rpush_ok, mirror_ok)
                 /\ turn_trace' = turn_trace \o <<DispatchEvent(tc_data.id),
                                                  AddEvent(message)>>
                 /\ tc_index' = tc_index + 1
                 /\ last_error' = "none"
                 /\ pc' = IF tc_index < Len(tool_calls) THEN "tools" ELSE "processing"
    /\ UNCHANGED <<turns, response_stream, current_messages,
                   response_message_dict, first_stream_raised,
                   asm_vars, disp_vars>>

second_completion == request_completion(2, FinalStreams, "processing", "streaming_2")

\* handle_streaming_response(final_stream) and the add_message of its
\* result; the turn ends
second_response ==
    /\ pc = "streaming_2"
    /\ \E rpush_ok \in StoreOutcomes, mirror_ok \in BOOLEAN :
        LET final_response_dict == handle_streaming_response(response_stream)
        IN  /\ loop_add_message(final_response_dict, rpush_ok, mirror_ok)
            /\ turn_trace' = Append(turn_trace, AddEvent(final_response_dict))
    /\ pc' = "input"
    /\ response_stream' = <<>>
    /\ last_error' = "none"
    /\ UNCHANGED <<turns, current_messages, response_message_dict, tc_index,
                   first_stream_raised, asm_vars, disp_vars>>

(***************************************************************************)
(* Specification of the agent: chat_agent has built its memory with        *)
(* SYSTEM_MESSAGE over an empty store and the loop runs.  app.py enters    *)
(* the loop only if memory.is_ready() answers True; agent_core.py enters   *)
(* it whether or not the memory was initialized.                           *)
(***************************************************************************)
Init ==
    /\ DispIdle
    /\ variant \in Programs
    /\ \E connected \in BOOLEAN :
        /\ variant = "app" => connected
        /\ redis_up = connected
        /\ initialized = connected
        /\ redis_list = IF connected
                        THEN list_after_init(<<>>, SYSTEM_MESSAGE, TRUE)
                        ELSE <<>>
    /\ system_message = SYSTEM_MESSAGE
    /\ max_tokens = LOOP_MAX_TOKENS
    /\ current_token_count = 0
    /\ mem_ret = MemRet("init", initialized, <<>>)
    /\ AsmIdle
    /\ LoopIdle

Next ==
    \/ await_input
    \/ input_interrupted
    \/ first_completion
    \/ first_response
    \/ tool_call_step
    \/ second_completion
    \/ second_response
    \/ store_outage
    \/ StoreUp

Spec == Init /\ [][Next]_vars

(***************************************************************************)
(* Properties of the memory component (checked under SpecMem).             *)
(***************************************************************************)
RECURSIVE SumTokens(_)
SumTokens(msgs) ==
    IF msgs = <<>> THEN 0 ELSE estimate_tokens(Head(msgs)) + SumTokens(Tail(msgs))

\* the messages of the persisted list, oldest first
LogMessages == [i \in 1..Len(redis_list) |-> json_loads(redis_list[i])]

\* s is the last Len(s) elements of t, in the same order
IsSuffix(s, t) ==
    /\ Len(s) <= Len(t)
    /\ \A i \in 1..Len(s) : s[i] = t[Len(t) - Len(s) + i]

\* s can be obtained from t by deleting elements (the order is kept)
RECURSIVE IsSubsequence(_, _)
IsSubsequence(s, t) ==
    IF s = <<>> THEN TRUE
    ELSE IF t = <<>> THEN FALSE
    ELSE IF Head(s) = Head(t) THEN IsSubsequence(Tail(s), Tail(t))
    ELSE IsSubsequence(s, Tail(t))

\* a successful get_messages() has just returned, on an instance that was
\* configured with a system message
GotWindow == mem_ret.op = "get" /\ mem_ret.ok /\ system_message # NoMessage

\* C1: token-budget invariant.  With a system message configured, a
\* successful get_messages() returns the system message followed by a
\* contiguous suffix of the persisted log, in log order; the estimated
\* cost of that suffix is at most max_tokens (and, when the suffix is not
\* empty, so is the cost of the whole result); being a contiguous suffix,
\* no message was passed over in favour of an older one.
C1_TokenBudget ==
    GotWindow =>
        LET window == Tail(mem_ret.msgs)
        IN  /\ mem_ret.msgs # <<>>
            /\ Head(mem_ret.msgs) = system_message
            /\ IsSuffix(window, LogMessages)
            /\ SumTokens(window) <= max_tokens
            /\ window # <<>> => SumTokens(mem_ret.msgs) <= max_tokens

\* witness of C1: the budget cut the log; two messages were returned behind
\* the system message and an older message of the log was left out
C1_Witness ==
    /\ GotWindow
    /\ Len(mem_ret.msgs) = 3
    /\ Len(redis_list) = 4
    /\ json_loads(redis_list[1]) = system_message

\* C2: append monotonicity.  A successful add_message(m) puts m behind
\* every entry already in the log and changes none of them; every
\* successful get_messages() (system message configured) lists the
\* messages it returns in their order in the log, so that the message
\* appended last, when returned, is the last one.
C2_AppendMonotonic ==
    [][ /\ (add_message /\ mem_ret'.ok) =>
              /\ Len(redis_list') = Len(redis_list) + 1
              /\ SubSeq(redis_list', 1, Len(redis_list)) = redis_list
        /\ (get_messages /\ mem_ret'.ok /\ system_message # NoMessage) =>
              LET window == Tail(mem_ret'.msgs)
              IN  /\ IsSubsequence(window, LogMessages)
                  /\ window # <<>> =>
                        window[Len(window)] = LogMessages[Len(redis_list)]
      ]_vars

\* witness of C2: after two successful appends of different messages a
\* read returned both, the later one last
C2_Witness ==
    /\ GotWindow
    /\ Len(mem_ret.msgs) = 3
    /\ mem_ret.msgs[2] # mem_ret.msgs[3]
    /\ mem_ret.msgs[3] = LogMessages[Len(redis_list)]

\* C7: degraded memory.  While the store is unreachable (the construction
\* failed, or the store does not answer the ping), is_ready() returns
\* False, add_message() returns False and writes nothing, and
\* get_messages() returns the system message alone (nothing at all when
\* no system message is configured).
C7_DegradedMemory ==
    [][ (~initialized \/ ~redis_up) =>
          /\ is_ready => ~mem_ret'.ok
          /\ add_message => (~mem_ret'.ok /\ redis_list' = redis_list)
          /\ get_messages =>
                mem_ret'.msgs = (IF system_message # NoMessage
                                 THEN <<system_message>> ELSE <<>>)
      ]_vars

\* witness of C7: the store went down under a working instance with a
\* non-empty history, and a read returned the system message alone
C7_Witness ==
    /\ mem_ret.op = "get"
    /\ ~mem_ret.ok
    /\ ~redis_up
    /\ system_message # NoMessage
    /\ Len(redis_list) >= 3
    /\ mem_ret.msgs = <<system_message>>

(***************************************************************************)
(* Properties of handle_streaming_response (checked under SpecAsm).        *)
(***************************************************************************)
\* the positions of final_tool_calls_list that index idx produced
EntriesOf(findex, idx) == { k \in 1..Len(findex) : findex[k] = idx }

Returned == asm_pc \in {"returned", "raised"}

\* C3 as stated: when the function returns, every index that has an id
\* and a name and whose fragments, all joined, are valid JSON has produced
\* exactly one finalized call, whose arguments are all the fragments joined.
C3_Original ==
    Returned =>
        \A idx \in Indices :
            ( /\ tool_calls_agg[idx].id # ""
              /\ tool_calls_agg[idx].name # ""
              /\ json_valid(received_arguments[idx]) )
            => /\ Cardinality(EntriesOf(final_indices, idx)) = 1
               /\ \A k \in EntriesOf(final_indices, idx) :
                     asm_ret.tool_calls[k].arguments = received_arguments[idx]

\* C3 (amended): an index is finalized at the first delta after which it
\* has an id, a name and a buffer that is valid JSON; the one call it
\* produces carries the fragments received up to that delta, joined, and
\* fragments that arrive later change nothing.  So an index with an id, a
\* name and fragments that are valid JSON when all joined always has
\* exactly one finalized call, whose arguments are a prefix of the joined
\* fragments (all of them when no fragment followed the finalizing delta).
C3_Reassembly ==
    [][ \A idx \in Indices :
          LET before == EntriesOf(final_indices, idx)
              after  == EntriesOf(final_indices', idx)
          IN  /\ idx \in completed_tool_call_indices =>
                    /\ after = before
                    /\ \A k \in before :
                          final_tool_calls_list'[k] = final_tool_calls_list[k]
              /\ (idx \notin completed_tool_call_indices
                    /\ idx \in completed_tool_call_indices') =>
                    /\ Cardinality(after) = 1
                    /\ \A k \in after :
                          /\ final_tool_calls_list'[k].arguments
                                = received_arguments'[idx]
                          /\ json_valid(final_tool_calls_list'[k].arguments)
              /\ ( /\ tool_calls_agg'[idx].id # ""
                   /\ tool_calls_agg'[idx].name # ""
                   /\ json_valid(received_arguments'[idx]) )
                 => /\ Cardinality(after) = 1
                    /\ \A k \in after :
                          /\ Len(final_tool_calls_list'[k].arguments)
                                <= Len(received_arguments'[idx])
                          /\ final_tool_calls_list'[k].arguments
                                = SubSeq(received_arguments'[idx], 1,
                                         Len(final_tool_calls_list'[k].arguments))
      ]_vars

\* witness of C3: the arguments {"a":1} came in two pieces and the returned
\* message carries one call with exactly these arguments
C3_Witness ==
    /\ asm_pc = "returned"
    /\ chunks_consumed >= 2
    /\ Len(asm_ret.tool_calls) = 1
    /\ asm_ret.tool_calls[1] =
          ToolCallRequest("c1", "f", <<"{", "\"", "a", "\"", ":", "1", "}">>)
    /\ received_arguments[0] = <<"{", "\"", "a", "\"", ":", "1", "}">>

(***************************************************************************)
(* Properties of execute_tool_call (checked under SpecDisp).               *)
(***************************************************************************)
Dispatched == disp_ret.how # "none"

\* the dispatch reaches tool.execute() with a dict of arguments that the
\* tool accepts, so that the tool's own logic runs
ToolLogicRuns ==
    /\ disp_call.name \in tool_map
    /\ \/ disp_call.arguments = <<>>
       \/ json_valid(disp_call.arguments) /\ json_kind(disp_call.arguments) = "object"
    /\ LET tool == ToolRegistry[disp_call.name]
           keys == IF disp_call.arguments = <<>> THEN {}
                   ELSE json_keys(disp_call.arguments)
       IN  /\ binds_arguments(tool, keys)
           /\ tool.validates =>
                 \A i \in 1..Len(tool.required) : tool.required[i] \in keys

ToolPhase ==
    SelectSeq(turn_trace,
              LAMBDA e : e.op = "dispatch"
                         \/ (e.op = "add" /\ e.message.role = "tool"))

\* the completion requests of the turn, in order
Completions == SelectSeq(turn_trace, LAMBDA e : e.op = "completion")

\* the positions of turn_trace holding a completion request without tools
SecondRequests ==
    { i \in 1..Len(turn_trace) :
        turn_trace[i].op = "completion" /\ ~turn_trace[i].tools }

\* the positions of turn_trace holding a dispatch or the add of a tool message
ToolPhasePositions ==
    { i \in 1..Len(turn_trace) :
        \/ turn_trace[i].op = "dispatch"
        \/ turn_trace[i].op = "add" /\ turn_trace[i].message.role = "tool" }

\* C5: with k tool calls in the first assembled message, the dispatches
\* and the adds of tool messages of the turn alternate, dispatch first, in
\* the order of the list: the j-th dispatch is of the j-th call and is
\* followed, before the next dispatch, by one add_message of a tool
\* message carrying that call's id, whatever the tool did.  While the for
\* loop stands at call i, i-1 such pairs are done; when the second
\* completion is requested all k pairs are done and none comes after it.
C5_SequentialDispatch ==
    LET calls == response_message_dict.tool_calls
        phase == ToolPhase
    IN  /\ Len(phase) <= 2 * Len(calls)
        /\ \A j \in 1..Len(phase) :
              IF j % 2 = 1
              THEN /\ phase[j].op = "dispatch"
                   /\ phase[j].id = calls[(j + 1) \div 2].id
              ELSE /\ phase[j].op = "add"
                   /\ phase[j].message.role = "tool"
                   /\ phase[j].message.tool_call_id = calls[j \div 2].id
        /\ pc = "tools" => Len(phase) = 2 * (tc_index - 1)
        /\ pc \in {"processing", "streaming_2"} => Len(phase) = 2 * Len(calls)
        /\ \A r \in SecondRequests :
              /\ Len(phase) = 2 * Len(calls)
              /\ \A i \in ToolPhasePositions : i < r

\* witness of C5: two calls, the first failed (unknown tool), the second
\* succeeded, both tool messages added, the second completion requested
C5_Witness ==
    /\ Len(response_message_dict.tool_calls) = 2
    /\ Len(ToolPhase) = 4
    /\ ToolPhase[2].message = ToolMessage("c1", "Error: Unknown function 'g'")
    /\ ToolPhase[4].message = ToolMessage("c2", "Sunny")
    /\ SecondRequests # {}

\* C6 as stated: in the persisted log every tool message answers a call of
\* the nearest assistant message before it, with only tool messages in
\* between.
C6_ToolMessagesFollowTheirCall ==
    LET log == LogMessages
    IN  \A i \in 1..Len(log) :
            log[i].role = "tool" =>
                \E j \in 1..(i - 1) :
                    /\ log[j].role = "assistant"
                    /\ \A m \in (j + 1)..(i - 1) : log[m].role = "tool"
                    /\ \E c \in 1..Len(log[j].tool_calls) :
                          log[j].tool_calls[c].id = log[i].tool_call_id

\* the user message of the turn was handed to add_message, which returned
\* False (primed: the state after the step)
UserAddFailed ==
    /\ turn_trace = <<AddEvent(UserMessage("Hi"))>>
    /\ mem_ret = MemRet("add", FALSE, <<>>)

\* C8: when add_message of the user message returns False the loop is back
\* at input() with nothing else done in the turn, and from input() the
\* next step of the loop is reading input (or its end): no completion is
\* requested, no tool dispatched, no add_message attempted.
C8_FailedUserAddAbortsTurn ==
    /\ [][(pc = "input" /\ turns' = turns + 1 /\ UserAddFailed')
            => (pc' = "input" /\ response_stream' = <<>>)]_vars
    /\ [][pc = "input"
            => \/ turns' = turns + 1
               \/ pc' = "exited"
               \/ UNCHANGED <<pc, turn_trace, redis_list, response_stream>>]_vars

\* witness of C8: the user message could not be added, the loop awaits input
C8_Witness ==
    /\ UserAddFailed
    /\ pc = "input"
    /\ turns = 1

\* C9: the first assembled message is handed to add_message right after
\* the first completion, with or without tool calls; without tool calls
\* the turn is over: the loop is back at input() (or has ended there) and
\* the turn has done nothing after that add.
C9_FirstMessageAppended ==
    response_message_dict # NoMessage =>
        /\ Len(turn_trace) >= 3
        /\ turn_trace[2] = CompletionEvent(TRUE)
        /\ turn_trace[3] = AddEvent(response_message_dict)
        /\ response_message_dict.tool_calls = <<>> =>
              /\ pc \in {"input", "exited"}
              /\ Len(turn_trace) = 3

\* witness of C9: a first message with neither content nor tool calls was
\* added and the loop awaits input
C9_Witness ==
    /\ response_message_dict = AssistantMessage("", <<>>)
    /\ turn_trace[3] = AddEvent(AssistantMessage("", <<>>))
    /\ pc = "input"

\* C10: a turn requests at most two completions, the second without
\* tools; every dispatch is of a call of the first assembled message and
\* comes before the second request; the message assembled from the second
\* completion is handed to add_message and the loop is back at input(),
\* whatever tool calls that message carries.
C10_TwoCompletions ==
    LET completions == Completions
        last == turn_trace[Len(turn_trace)]
    IN  /\ Len(completions) <= 2
        /\ Len(completions) >= 1 => completions[1].tools
        /\ Len(completions) = 2 => ~completions[2].tools
        /\ \A i \in 1..Len(turn_trace) :
              turn_trace[i].op = "dispatch" =>
                  /\ \E c \in 1..Len(response_message_dict.tool_calls) :
                        response_message_dict.tool_calls[c].id = turn_trace[i].id
                  /\ \A r \in SecondRequests : i < r
        /\ pc = "streaming_2" => (Len(completions) = 2 /\ last.op = "completion")
        /\ (Len(completions) = 2 /\ last.op = "add") =>
              /\ last.message.role = "assistant"
              /\ pc \in {"input", "exited"}

\* witness of C10: the second assembled message carries a tool call, it
\* was added, the loop awaits input and the call was not dispatched
C10_Witness ==
    /\ Len(Completions) = 2
    /\ turn_trace[Len(turn_trace)].op = "add"
    /\ turn_trace[Len(turn_trace)].message.tool_calls # <<>>
    /\ pc = "input"
    /\ \A i \in 1..Len(turn_trace) : turn_trace[i].id # "c3"

\* the dispatch got arguments json.loads accepts (or none at all)
ParseableArguments ==
    disp_call.arguments = <<>> \/ json_valid(disp_call.arguments)

\* C11: a dispatch of a name that is not in the tool map, with parseable
\* arguments, returns "Error: Unknown function '<name>'" and runs no tool;
\* and no dispatch, of any call, changes the tool map.
C11_UnknownFunction ==
    /\ [](( /\ Dispatched
            /\ disp_call.name # ""
            /\ disp_call.name \notin tool_map
            /\ ParseableArguments )
          => /\ disp_ret = Returned_str("Error: Unknown function '"
                                        \o disp_call.name \o "'", FALSE)
             /\ ~disp_ret.executed)
    /\ [][dispatch => tool_map' = tool_map]_vars
    /\ [][(dispatch /\ disp_call'.name \notin tool_map)
            => tool_executions' = tool_executions]_vars

\* witness of C11: the unknown name "g" was dispatched with valid arguments
C11_Witness ==
    /\ Dispatched
    /\ disp_call.name = "g"
    /\ disp_call.arguments = <<"{", "\"", "a", "\"", ":", "1", "}">>
    /\ disp_ret.text = "Error: Unknown function 'g'"
    /\ tool_map = RegisteredTools

\* the dispatch is of a registered tool that declares required parameters,
\* with a JSON object (or nothing) that lacks one of them
MissingRequired ==
    /\ disp_call.name \in tool_map
    /\ \/ disp_call.arguments = <<>>
       \/ json_valid(disp_call.arguments) /\ json_kind(disp_call.arguments) = "object"
    /\ LET tool == ToolRegistry[disp_call.name]
           keys == IF disp_call.arguments = <<>> THEN {}
                   ELSE json_keys(disp_call.arguments)
       IN  \E i \in 1..Len(tool.required) : tool.required[i] \notin keys

\* C12 as stated: a dispatch of a registered tool with a required
\* parameter missing returns the error string that names the missing
\* parameters, and the tool's own logic has not run.
C12_MissingParameterNamed ==
    (Dispatched /\ MissingRequired) =>
        disp_ret = Returned_str("Error executing tool " \o disp_call.name \o ": "
                                \o validate_args(ToolRegistry[disp_call.name].required, {}),
                                TRUE)

\* C13 as stated: every list get_messages() returns, on an instance with a
\* system message configured, starts with that system message and holds
\* no other message of role "system".
C13_SingleSystemMessage ==
    (mem_ret.op = "get" /\ system_message # NoMessage) =>
        /\ mem_ret.msgs # <<>>
        /\ mem_ret.msgs[1] = system_message
        /\ \A i \in 2..Len(mem_ret.msgs) : mem_ret.msgs[i].role # "system"

\* C14 as stated (first half): no system message occurs twice in the
\* persisted log.
C14_NoDuplicateSystemMessage ==
    LET log == LogMessages
    IN  \A i, j \in 1..Len(log) :
            (i # j /\ log[i].role = "system") => log[i] # log[j]

\* C15: when a completion request (the first or the second) raises
\* APIError the loop is back at input(), not ended; when a request raises
\* any other Exception, or KeyboardInterrupt arrives at input() or out of a
\* tool, the loop has ended; and once ended the loop takes no further
\* step: it reads no input and calls neither memory nor model.
C15_LoopFailureSemantics ==
    /\ [](last_error = "APIError" => pc = "input")
    /\ [](last_error \in {"Exception", "KeyboardInterrupt"} => pc = "exited")
    /\ [](last_error = "none" => pc # "exited" \/ turn_trace = <<>>)
    /\ [][pc = "exited" =>
            UNCHANGED <<pc, turns, turn_trace, response_stream, current_messages,
                        response_message_dict, tc_index, last_error,
                        redis_list, initialized>>]_vars

\* witness of C15: the second completion request raised APIError after a
\* tool round and the loop awaits input
C15_Witness ==
    /\ last_error = "APIError"
    /\ Len(Completions) = 2
    /\ Len(ToolPhase) > 0
    /\ pc = "input"

\* C16 as stated: whenever the tool's logic raises something that is not a
\* ToolExecutionError, the call returns "Critical Error executing tool
\* <name>.".
C16_Original ==
    (Dispatched /\ ToolLogicRuns
       /\ tool_behaviour.kind \in {"raise_Exception", "raise_BaseException"})
    => disp_ret = Returned_str("Critical Error executing tool "
                               \o disp_call.name \o ".", TRUE)

\* C16 (amended): whenever the tool's logic raises an exception derived
\* from Exception that is not a ToolExecutionError, and whenever binding
\* the arguments to the tool raises TypeError, the call returns exactly
\* "Critical Error executing tool <name>.": the string is a function of
\* the name alone, so no type or message of the exception shows in it.
\* (An exception that is no Exception is not converted: it propagates.)
C16_OpaqueCriticalError ==
    /\ (Dispatched /\ ToolLogicRuns /\ tool_behaviour.kind = "raise_Exception")
       => disp_ret = Returned_str("Critical Error executing tool "
                                  \o disp_call.name \o ".", TRUE)
    /\ (Dispatched /\ disp_ret.how = "return" /\ disp_ret.is_str
          /\ Len(disp_ret.text) >= 8 /\ SubSeq(disp_ret.text, 1, 8) = "Critical")
       => disp_ret.text = "Critical Error executing tool " \o disp_call.name \o "."

\* witness of C16: the tool "now" raised ValueError with a message and the
\* call returned the string that shows only the name
C16_Witness ==
    /\ Dispatched
    /\ ToolLogicRuns
    /\ tool_behaviour = [kind |-> "raise_Exception", text |-> "ValueError: bad key sk-1"]
    /\ disp_ret = Returned_str("Critical Error executing tool now.", TRUE)

(***************************************************************************)
(* Claims about runs of handle_streaming_response (SpecRun).               *)
(***************************************************************************)
\* the chunks a finished run had read when it ended
ChunksRead(r) == SubSeq(stream_input, 1, r.chunks)

\* C17: partial progress on stream failure.  A run whose stream raises
\* after delivering n chunks still returns a message (nothing propagates),
\* and that message has the content and the tool_calls the function returns
\* for a stream that consists of exactly those n chunks.
C17_PartialProgress ==
    /\ asm_pc = "raised" => asm_ret # NoMessage
    /\ \A i \in 1..Len(run_results) :
          LET r == run_results[i]
              whole == handle_streaming_response(ChunksRead(r))
          IN  r.ending = "raised" =>
                /\ r.message # NoMessage
                /\ r.message.content = whole.content
                /\ r.message.tool_calls = whole.tool_calls

\* a stream raised after chunks that carried text, a finalized call and an
\* unfinished call, and before its last chunk
C17_Witness ==
    /\ asm_pc = "raised"
    /\ chunks_consumed >= 2
    /\ chunks_consumed < Len(stream_input)
    /\ asm_ret.content # ""
    /\ asm_ret.tool_calls # <<>>
    /\ \E idx \in Indices :
          tool_calls_agg[idx].id # "" /\ idx \notin completed_tool_call_indices

C18_NeverDeletesOrRewrites ==
    [][ /\ \/ redis_list' = redis_list
           \/ /\ mem_ret'.op = "add"
              /\ \E message \in MemMessages :
                    redis_list' = Append(redis_list, json_dumps(message))
           \/ /\ mem_ret'.op = "init"
              /\ system_message' # NoMessage
              /\ redis_list' = <<json_dumps(system_message')>> \o redis_list
        /\ IsSubsequence(redis_list, redis_list')
        /\ mem_ret'.op = "get" => redis_list' = redis_list
      ]_vars

\* a read that returned fewer messages than the log holds, over a log to
\* which two constructions and an add_message have contributed
C18_Witness ==
    /\ mem_ret.op = "get"
    /\ mem_ret.ok
    /\ Len(redis_list) >= 3
    /\ Len(mem_ret.msgs) < Len(redis_list)
    /\ LogMessages[1].role = "system"
    /\ LogMessages[2].role = "system"
    /\ LogMessages[Len(redis_list)].role # "system"


(***************************************************************************)
(* Claims about the start of the process (SpecStart).                      *)
(***************************************************************************)
\* the tools whose constructor is called and succeeds
Constructible ==
    ({TOOL_CLASSES[i] : i \in 1..Len(TOOL_CLASSES)}
        \cup (IF vector_db_ready THEN {VECTOR_SEARCH} ELSE {}))
    \ ctor_fails

\* C20: registry construction tolerates failing tools.  When the
\* constructor of a tool fails during initialize_tools, the process is not
\* ended by it: initialize_tools returns a tool map that holds exactly the
\* tools that could be constructed, and the process goes on to the chat
\* loop.
C20_FailingToolExcluded ==
    /\ reg_pc # "aborted"
    /\ reg_pc \in {"returned", "chat_agent"} => tool_map = Constructible
    /\ (reg_pc \in {"returned", "chat_agent"} /\ ctor_fails # {})
          => tool_map # {}

(***************************************************************************)
(* Further properties of handle_streaming_response (SpecAsm).              *)
(***************************************************************************)
\* some prefix of the character sequence s is valid JSON
SomePrefixValid(s) == \E n \in 1..Len(s) : json_valid(SubSeq(s, 1, n))

\* C21: every ToolCallRequest in the returned list has a non-empty id, a
\* non-empty name and arguments that parse as JSON; an index is finalized
\* only by an update after which its buffer is valid JSON, so an index
\* whose buffer was valid at none of its updates has no entry, and the
\* function still returns a message (the failed parse is not reported).
C21_FinalizedCallsWellFormed ==
    /\ [] /\ \A k \in 1..Len(final_tool_calls_list) :
               /\ final_tool_calls_list[k].id # ""
               /\ final_tool_calls_list[k].name # ""
               /\ json_valid(final_tool_calls_list[k].arguments)
          /\ \A idx \in Indices :
               ~SomePrefixValid(received_arguments[idx])
                  => EntriesOf(final_indices, idx) = {}
          /\ Returned =>
               /\ asm_ret # NoMessage
               /\ asm_ret.tool_calls = final_tool_calls_list
    /\ [][ \A idx \in Indices :
             ~json_valid(tool_calls_agg'[idx].arguments)
                => EntriesOf(final_indices', idx) = EntriesOf(final_indices, idx)
         ]_vars

\* index 0 got an id, a name and fragments that never became valid JSON and
\* has no entry; index 1 was finalized; the function has returned
C21_Witness ==
    /\ asm_pc = "returned"
    /\ tool_calls_agg[0].id # ""
    /\ tool_calls_agg[0].name # ""
    /\ received_arguments[0] = <<"{", "\"", "a", "\"", ":">>
    /\ EntriesOf(final_indices, 0) = {}
    /\ Len(asm_ret.tool_calls) = 1
    /\ final_indices = <<1>>

\* C22: each emission index contributes at most one finalized request per
\* stream, and a finalized request is immutable: a delta for a finalized
\* index (a new id, a new name, more fragments) leaves the list of finalized
\* requests exactly as it was.
C22_FinalizedOnceAndImmutable ==
    /\ [] \A idx \in Indices :
            /\ Cardinality(EntriesOf(final_indices, idx)) <= 1
            /\ idx \in completed_tool_call_indices
                  <=> EntriesOf(final_indices, idx) # {}
    /\ [][ /\ Len(final_tool_calls_list) <= Len(final_tool_calls_list')
           /\ SubSeq(final_tool_calls_list', 1, Len(final_tool_calls_list))
                 = final_tool_calls_list
           /\ \A k \in (Len(final_tool_calls_list) + 1)
                           ..Len(final_tool_calls_list') :
                 final_indices'[k] \notin completed_tool_call_indices
         ]_<<final_tool_calls_list, final_indices, completed_tool_call_indices>>

\* index 0 was finalized as c1/f with the arguments {}; afterwards it got
\* another id, another name and one more fragment; the returned list still
\* holds the one request as it was finalized
C22_Witness ==
    /\ asm_pc = "returned"
    /\ final_indices = <<0>>
    /\ asm_ret.tool_calls = <<ToolCallRequest("c1", "f", <<"{", "}">>)>>
    /\ tool_calls_agg[0].id = "c2"
    /\ tool_calls_agg[0].name = "g"
    /\ Len(received_arguments[0]) > 2

\* C24: for a stream whose tool-call deltas are interleaved across several
\* indices, the returned tool_calls are in ascending index order (the order
\* in which the loop then dispatches them).
C24_AscendingIndexOrder ==
    Returned =>
        /\ asm_ret.tool_calls = final_tool_calls_list
        /\ \A j, k \in 1..Len(final_indices) :
              j < k => final_indices[j] < final_indices[k]

\* C25: a tool call that got an id and a name but no argument fragment
\* (its buffer is still the empty string) is not finalized and is absent
\* from the returned tool_calls; every reported call carries arguments the
\* stream supplied explicitly, such as {}.
C25_EmptyArgumentsNeverFinalized ==
    /\ \A idx \in Indices :
          received_arguments[idx] = <<>> =>
              /\ idx \notin completed_tool_call_indices
              /\ EntriesOf(final_indices, idx) = {}
    /\ \A k \in 1..Len(final_tool_calls_list) :
          /\ final_tool_calls_list[k].arguments # <<>>
          /\ Len(final_tool_calls_list[k].arguments)
                <= Len(received_arguments[final_indices[k]])
    /\ Returned => asm_ret.tool_calls = final_tool_calls_list

\* index 0 got its id and its name and no fragment and is absent from the
\* returned list; index 1 got the explicit arguments {} and is reported
C25_Witness ==
    /\ asm_pc = "returned"
    /\ tool_calls_agg[0].id # ""
    /\ tool_calls_agg[0].name # ""
    /\ received_arguments[0] = <<>>
    /\ asm_ret.tool_calls = <<ToolCallRequest("c2", "f", <<"{", "}">>)>>
    /\ final_indices = <<1>>

(***************************************************************************)
(* Further properties of RedisPersistentMemory (SpecMem).                  *)
(***************************************************************************)
\* C23: on an instance constructed without a system message, a successful
\* get_messages() returns the accepted messages oldest-first, in the order
\* in which they stand in the log.
C23_OrderWithoutSystemMessage ==
    (mem_ret.op = "get" /\ mem_ret.ok /\ system_message = NoMessage)
        => IsSuffix(mem_ret.msgs, LogMessages)

\* C26: add_message() reports failure only when nothing was written: a call
\* that returns False leaves the persisted log as it was, also when the
\* failure comes from the mirroring step that follows the append.
C26_FailureMeansNothingWritten ==
    [][ (add_message /\ ~mem_ret'.ok) => redis_list' = redis_list ]_vars

\* C27: readiness is latched off by a failed ping.  A call on an instance
\* that is initialized finds the store unreachable: self.initialized becomes
\* False.  From then on, on that instance, is_ready() and add_message()
\* return False, add_message() writes nothing and get_messages() returns
\* the system message alone (nothing when none is configured), whether or
\* not the store is reachable again; only a new construction ends this.
C27_ReadinessLatchedOff ==
    [][ /\ ((is_ready \/ add_message \/ get_messages)
               /\ initialized /\ ~redis_up) => ~initialized'
        /\ ((is_ready \/ add_message \/ get_messages) /\ ~initialized) =>
              /\ ~initialized'
              /\ ~mem_ret'.ok
              /\ redis_list' = redis_list
        /\ (get_messages /\ ~initialized) =>
              mem_ret'.msgs = fallback_messages(system_message)
        /\ (~initialized /\ initialized') => mem_ret'.op = "init"
      ]_vars

\* the store is reachable and the log holds messages behind the system
\* message, yet get_messages() has just returned the system message alone
\* on an instance whose flag is off
C27_Witness ==
    /\ ~initialized
    /\ redis_up
    /\ mem_ret.op = "get"
    /\ ~mem_ret.ok
    /\ system_message # NoMessage
    /\ mem_ret.msgs = <<system_message>>
    /\ Len(redis_list) >= 2
    /\ json_loads(redis_list[1]) = system_message

(***************************************************************************)
(* get_messages() as a function of the budget, over the logs that one turn *)
(* of chat_agent with tool calls writes (SpecWindow).                      *)
(***************************************************************************)
MaxBudget == 100

\* one turn with one tool call and one turn with two: what chat_agent
\* appends, in order, behind the system message
TurnLogs ==
    { << SYSTEM_MESSAGE,
         UserMessage("Hi"),
         AssistantMessage("", <<ToolCallRequest("c1", "now", <<"{", "}">>)>>),
         ToolMessage("c1", "Sunny"),
         AssistantMessage("Hi there", <<>>) >>,
      << SYSTEM_MESSAGE,
         UserMessage("Hi"),
         AssistantMessage("", <<ToolCallRequest("c1", "now", <<"{", "}">>),
                                ToolCallRequest("c2", "f", <<"{", "}">>)>>),
         ToolMessage("c1", "Sunny"),
         ToolMessage("c2", "Sunny"),
         AssistantMessage("Hi there", <<>>) >> }

\* the log at any point of such a turn
LoopLogs == UNION { { SubSeq(log, 1, n) : n \in 1..Len(log) } : log \in TurnLogs }

InitWindow ==
    /\ AsmIdle
    /\ DispIdle
    /\ variant = "app"
    /\ LoopIdle
    /\ redis_up = TRUE
    /\ initialized = TRUE
    /\ system_message = SYSTEM_MESSAGE
    /\ current_token_count = 0
    /\ mem_ret = MemRet("init", TRUE, <<>>)
    /\ max_tokens \in 0..MaxBudget
    /\ \E log \in LoopLogs :
          redis_list = [i \in 1..Len(log) |-> json_dumps(log[i])]

NextWindow == get_messages

SpecWindow == InitWindow /\ [][NextWindow]_vars

\* C28: in every list get_messages() returns, each tool message is preceded
\* in that list by the assistant message whose tool_calls hold its
\* tool_call_id, for every budget and every log the loop writes.
C28_ToolResultAfterItsCall ==
    (mem_ret.op = "get" /\ mem_ret.ok) =>
        \A i \in 1..Len(mem_ret.msgs) :
            mem_ret.msgs[i].role = "tool" =>
                \E j \in 1..(i - 1) :
                    /\ mem_ret.msgs[j].role = "assistant"
                    /\ \E k \in 1..Len(mem_ret.msgs[j].tool_calls) :
                          mem_ret.msgs[j].tool_calls[k].id
                              = mem_ret.msgs[i].tool_call_id

(***************************************************************************)
(* Further properties of chat_agent's loop (Spec).                         *)
(***************************************************************************)
\* C29: a stream error does not end the turn.  When the first stream of a
\* turn raises after some tool calls were finalized, the partial assistant
\* message is handed to add_message and the loop goes to the tool calls;
\* it dispatches exactly the finalized calls, in order, each followed by
\* the add of its result, and then requests the second completion (unless
\* a dispatch lets an exception through, which ends the loop as for any
\* turn).
C29_StreamErrorKeepsTurn ==
    /\ [][ (pc = "streaming_1" /\ first_stream_raised /\ pc' # "streaming_1") =>
             LET partial == handle_streaming_response(response_stream)
             IN  /\ response_message_dict' = partial
                 /\ turn_trace' = Append(turn_trace, AddEvent(partial))
                 /\ partial.tool_calls # <<>> => (pc' = "tools" /\ tc_index' = 1)
         ]_vars
    /\ [][ (pc = "tools" /\ first_stream_raised /\ tc_index' # tc_index) =>
             LET call == response_message_dict.tool_calls[tc_index]
                 n    == Len(turn_trace)
             IN  /\ tc_index' = tc_index + 1
                 /\ Len(turn_trace') = n + 2
                 /\ turn_trace'[n + 1] = DispatchEvent(call.id)
                 /\ turn_trace'[n + 2].op = "add"
                 /\ turn_trace'[n + 2].message.role = "tool"
                 /\ turn_trace'[n + 2].message.tool_call_id = call.id
                 /\ pc' = (IF tc_index' <= Len(response_message_dict.tool_calls)
                           THEN "tools" ELSE "processing")
         ]_vars
    /\ [][ (pc = "tools" /\ first_stream_raised /\ pc' \notin {"tools", "processing"})
             => last_error' # "none"
         ]_vars
    /\ [][ (pc = "processing" /\ first_stream_raised /\ pc' # "processing") =>
             /\ Len(ToolPhase) = 2 * Len(response_message_dict.tool_calls)
             /\ turn_trace' = Append(turn_trace, CompletionEvent(FALSE))
         ]_vars

\* the first stream raised in the middle of its second call; the message
\* with the one finalized call was added, that call was dispatched, its
\* result was added and the second completion has been requested
C29_Witness ==
    /\ first_stream_raised
    /\ pc = "streaming_2"
    /\ Len(response_message_dict.tool_calls) = 1
    /\ response_message_dict.tool_calls[1].id = "c1"
    /\ Len(turn_trace) = 6
    /\ turn_trace[3] = AddEvent(response_message_dict)
    /\ turn_trace[4] = DispatchEvent("c1")
    /\ turn_trace[5].op = "add"
    /\ turn_trace[5].message.tool_call_id = "c1"
    /\ turn_trace[6] = CompletionEvent(FALSE)

(***************************************************************************)
(* The accounting of get_messages (SpecWindow).                            *)
(***************************************************************************)
\* the accounting of a get_messages() that has read the store: the system
\* message comes first and is charged; the messages behind it are a suffix
\* of the log; current_token_count is the sum of the estimates of all
\* returned messages; when a message was accepted the sum is within
\* max_tokens; and the newest message left out did not fit, that is, it
\* would have taken the sum beyond max_tokens
WindowAccounting ==
    LET window   == Tail(mem_ret.msgs)
        log      == Tail(LogMessages)
        left_out == Len(log) - Len(window)
    IN  /\ mem_ret.msgs # <<>>
        /\ Head(mem_ret.msgs) = system_message
        /\ IsSuffix(window, log)
        /\ current_token_count = SumTokens(mem_ret.msgs)
        /\ current_token_count
              = estimate_tokens(system_message) + SumTokens(window)
        /\ window # <<>> => current_token_count <= max_tokens
        /\ left_out > 0 =>
              current_token_count + estimate_tokens(log[left_out]) > max_tokens

\* C30 as stated: the accounting holds after every get_messages().
C30_Original ==
    mem_ret.op = "get" => WindowAccounting

\* C30 (amended): the accounting holds after every get_messages() that has
\* read the store (is_ready() answered True and llen / lrange succeeded);
\* a get_messages() that falls back to the system message alone leaves
\* current_token_count as it was.
C30_SystemMessageCharged ==
    /\ (mem_ret.op = "get" /\ mem_ret.ok) => WindowAccounting
    /\ (mem_ret.op = "get" /\ ~mem_ret.ok) =>
          mem_ret.msgs = fallback_messages(system_message)

\* a read whose accepted messages bring the total to exactly max_tokens,
\* with an older message of the log left out
C30_Witness ==
    /\ mem_ret.op = "get"
    /\ mem_ret.ok
    /\ Len(mem_ret.msgs) >= 3
    /\ Len(mem_ret.msgs) < Len(redis_list)
    /\ current_token_count = max_tokens
    /\ SumTokens(mem_ret.msgs) = max_tokens

=============================================================================
